---- MODULE Spec2Model ----
(***************************************************************************)
(* Model of the RX-8010-SJ real-time-clock driver (src/src/lib.rs).        *)
(* The device is a register file behind an I2C transport that may fail any *)
(* transaction; the driver handle holds the 7-bit address.  Every public   *)
(* method is one action (the driver is synchronous and single-threaded).   *)
(***************************************************************************)
EXTENDS Integers, Sequences, FiniteSets, TLC

(***************************************************************************)
(* u8 arithmetic and bit operations                                        *)
(***************************************************************************)
Byte == 0..255

RECURSIVE BitAndN(_, _, _)
BitAndN(a, b, n) ==
    IF n = 0 THEN 0
    ELSE (IF a % 2 = 1 /\ b % 2 = 1 THEN 1 ELSE 0) + 2 * BitAndN(a \div 2, b \div 2, n - 1)

RECURSIVE BitOrN(_, _, _)
BitOrN(a, b, n) ==
    IF n = 0 THEN 0
    ELSE (IF a % 2 = 1 \/ b % 2 = 1 THEN 1 ELSE 0) + 2 * BitOrN(a \div 2, b \div 2, n - 1)

\* a & b, a | b, !a, a << k and a >> k on u8
BitAnd(a, b) == BitAndN(a, b, 8)
BitOr(a, b) == BitOrN(a, b, 8)
BitNot(a) == 255 - a
Shl(a, k) == (a * (2 ^ k)) % 256
Shr(a, k) == a \div (2 ^ k)

\* `x as i8` of a u8, and `x as u8` of a signed integer
AsI8(b) == IF b >= 128 THEN b - 256 ELSE b
AsU8(x) == x % 256

(***************************************************************************)
(* Program constants                                                       *)
(***************************************************************************)
DEFAULT_ADDRESS == Shr(100, 1)
REGISTER_CONTROL == 31
REGISTER_SEC == 16
BIT_REGISTER_CONTROL_STOP == 64

(***************************************************************************)
(* Register codec                                                          *)
(***************************************************************************)
bcd2bin(bcd) == BitAnd(Shr(bcd, 4), 15) * 10 + BitAnd(bcd, 15)

\* bin2bcd with the tens digit left in the low nibble
bin2bcd_noshift(bin) == BitOr(bin \div 10, bin % 10)

bin2bcd(bin) == BitOr(Shl(bin \div 10, 4), bin % 10)

(***************************************************************************)
(* The calendar types of the datetime crate, as get_time and set_time use  *)
(* them.  Months and weekdays are their 0-based indices (January = 0,      *)
(* Sunday = 0).  A Result is a record with an ok flag.                     *)
(***************************************************************************)
January == 0
March == 2

Err == [ok |-> FALSE]
Ok(v) == [ok |-> TRUE, val |-> v]
unwrap_or(r, d) == IF r.ok THEN r.val ELSE d

\* Month::from_zero
Month_from_zero(m) == IF m >= 0 /\ m <= 11 THEN Ok(m) ELSE Err

\* Month::days_in_month
days_in_month(month, leap) ==
    CASE month \in {0, 2, 4, 6, 7, 9, 11} -> 31
      [] month \in {3, 5, 8, 10} -> 30
      [] OTHER -> IF leap THEN 29 ELSE 28

\* Month::days_before_start
days_before_start(month) ==
    <<0, 31, 59, 90, 120, 151, 181, 212, 243, 273, 304, 334>>[month + 1]

\* Rust's truncating division and remainder on i64
TDiv(a, b) == IF a >= 0 THEN a \div b ELSE -((-a) \div b)
TRem(a, b) == a - b * TDiv(a, b)

\* split_cycles: floor division with a non-negative remainder
split_cycles(n, len) ==
    IF TRem(n, len) < 0
    THEN [cycles |-> TDiv(n, len) - 1, remainder |-> TRem(n, len) + len]
    ELSE [cycles |-> TDiv(n, len), remainder |-> TRem(n, len)]

\* Year::leap_year_calculations: (leap days elapsed since 2000, is leap year)
leap_year_calculations(year) ==
    LET sc == split_cycles(year - 2000, 400)
        r == sc.remainder
        leap == r = 0 \/ (r % 100 # 0 /\ r % 4 = 0)
        n100 == r \div 100
        r2 == r - n100 * 100
    IN [elapsed |-> (r2 \div 4) + 97 * sc.cycles + 24 * n100 - (IF leap THEN 1 ELSE 0),
        leap |-> leap]

DAYS_IN_4Y == 365 * 4 + 1
DAYS_IN_100Y == 365 * 100 + 24
DAYS_IN_400Y == 365 * 400 + 97
\* days between 1970-01-01 and 2000-03-01
EPOCH_DIFFERENCE == 30 * 365 + 7 + 31 + 29
\* days from 1 March to the first of February, January, December, ..., April
TIME_TRIANGLE == <<337, 306, 275, 245, 214, 184, 153, 122, 92, 61, 31>>

\* YMD::to_days_since_epoch: days since 1970-01-01, or Err for an invalid day
to_days_since_epoch(year, month, day) ==
    LET lc == leap_year_calculations(year)
    IN IF ~(day >= 1 /\ day <= days_in_month(month, lc.leap))
       THEN Err
       ELSE Ok((year - 2000) * 365 + 10958 + lc.elapsed + days_before_start(month)
               + (IF lc.leap /\ month >= March THEN 1 ELSE 0) + (day - 1))

\* days_to_weekday: 2000-03-01 was a Wednesday
days_to_weekday(days) ==
    LET w == TRem(days + 3, 7) IN IF w < 0 THEN w + 7 ELSE w

Min(a, b) == IF a < b THEN a ELSE b

\* LocalDate::from_days_since_epoch (days counted from 2000-03-01).  The register
\* blocks and date-times used below stay clear of 29 February of a year divisible
\* by 400, the last day of a 400-year cycle.
from_days_since_epoch(days) ==
    LET sc == split_cycles(days, DAYS_IN_400Y)
        n100 == sc.remainder \div DAYS_IN_100Y
        r1 == sc.remainder - n100 * DAYS_IN_100Y
        n4 == r1 \div DAYS_IN_4Y
        r2 == r1 - n4 * DAYS_IN_4Y
        y0 == Min(r2 \div 365, 3)
        r3 == r2 - y0 * 365
        years == y0 + 4 * n4 + 100 * n100 + 400 * sc.cycles
        hit == {i \in 1..11 : TIME_TRIANGLE[i] <= r3}
        idx == IF hit = {} THEN 0 ELSE CHOOSE i \in hit : \A j \in hit : i <= j
        m0 == (IF idx = 0 THEN 0 ELSE 11 - (idx - 1)) + 2
        mdays == IF idx = 0 THEN r3 ELSE r3 - TIME_TRIANGLE[idx]
    IN [year |-> (IF m0 >= 12 THEN years + 1 ELSE years) + 2000,
        month |-> IF m0 >= 12 THEN m0 - 12 ELSE m0,
        day |-> mdays + 1,
        weekday |-> days_to_weekday(days)]

\* LocalDate::ymd
LocalDate_ymd(year, month, day) ==
    LET d == to_days_since_epoch(year, month, day)
    IN IF d.ok THEN Ok(from_days_since_epoch(d.val - EPOCH_DIFFERENCE)) ELSE Err

\* LocalDate::yd
LocalDate_yd(year, yearday) ==
    IF yearday >= 0 /\ yearday < 367
    THEN LET d == to_days_since_epoch(year, January, 1)
         IN IF d.ok THEN Ok(from_days_since_epoch(d.val + yearday - 1 - EPOCH_DIFFERENCE))
            ELSE Err
    ELSE Err

\* LocalTime::hms and LocalTime::hm: 24:00:00 is accepted as the end of a day
LocalTime_hms(hour, minute, second) ==
    IF (hour >= 0 /\ hour < 24 /\ minute >= 0 /\ minute < 60 /\ second >= 0 /\ second < 60)
       \/ (hour = 24 /\ minute = 0 /\ second = 0)
    THEN Ok([hour |-> hour, minute |-> minute, second |-> second])
    ELSE Err

LocalTime_hm(hour, minute) ==
    IF (hour >= 0 /\ hour < 24 /\ minute >= 0 /\ minute < 60) \/ (hour = 24 /\ minute = 0)
    THEN Ok([hour |-> hour, minute |-> minute, second |-> 0])
    ELSE Err

\* LocalDateTime::new
LocalDateTime_new(date, time) == [date |-> date, time |-> time]

(***************************************************************************)
(* The I2C transport (embedded_hal::i2c::I2c) and the device behind it.    *)
(* A bus value carries the device registers, the transactions issued so    *)
(* far in the current call, and the transport's failure plan for the call: *)
(* transaction number failAt fails with error err (0: none fails).  A      *)
(* failed transaction leaves the device untouched; a successful write      *)
(* [reg, data] stores data in reg.                                         *)
(***************************************************************************)
BusErr(e) == [ok |-> FALSE, err |-> e]
Unit == <<>>

\* I2c::write(address, bytes)
i2c_write(bus, addr, bytes) ==
    LET fail == Len(bus.txs) + 1 = bus.failAt
        tx == [kind |-> "write", addr |-> addr, bytes |-> bytes, len |-> 0, ok |-> ~fail]
    IN [bus |-> [bus EXCEPT !.txs = Append(@, tx),
                            !.regs = IF fail THEN @ ELSE [@ EXCEPT ![bytes[1]] = bytes[2]]],
        res |-> IF fail THEN BusErr(bus.err) ELSE Ok(Unit)]

\* I2c::write_read(address, bytes, buffer of n bytes)
i2c_write_read(bus, addr, bytes, n) ==
    LET fail == Len(bus.txs) + 1 = bus.failAt
        tx == [kind |-> "write_read", addr |-> addr, bytes |-> bytes, len |-> n, ok |-> ~fail]
    IN [bus |-> [bus EXCEPT !.txs = Append(@, tx)],
        res |-> IF fail THEN BusErr(bus.err)
                ELSE Ok([i \in 1..n |-> bus.regs[bytes[1] + (i - 1)]])]

(***************************************************************************)
(* Register access helpers of the driver                                   *)
(***************************************************************************)
\* write_register addressing the default address instead of the handle's
write_register_default_address(bus, address, reg, data) ==
    i2c_write(bus, DEFAULT_ADDRESS, <<reg, data>>)

write_register(bus, address, reg, data) == i2c_write(bus, address, <<reg, data>>)

RECURSIVE write_registers_from(_, _, _, _, _)
write_registers_from(bus, address, reg, data, i) ==
    IF i > Len(data) THEN [bus |-> bus, res |-> Ok(Unit)]
    ELSE LET w == write_register(bus, address, AsU8(reg + (i - 1)), data[i])
         IN IF ~w.res.ok THEN w
            ELSE write_registers_from(w.bus, address, reg, data, i + 1)

\* write_registers going on with the remaining bytes after a failed write
RECURSIVE write_registers_ignoring(_, _, _, _, _)
write_registers_ignoring(bus, address, reg, data, i) ==
    IF i > Len(data) THEN [bus |-> bus, res |-> Ok(Unit)]
    ELSE LET w == write_register(bus, address, AsU8(reg + (i - 1)), data[i])
             rest == write_registers_ignoring(w.bus, address, reg, data, i + 1)
         IN [bus |-> rest.bus, res |-> IF ~w.res.ok THEN w.res ELSE rest.res]

write_registers_keep_going(bus, address, reg, data) ==
    write_registers_ignoring(bus, address, reg, data, 1)

write_registers(bus, address, reg, data) == write_registers_from(bus, address, reg, data, 1)

read_registers(bus, address, n, reg) == i2c_write_read(bus, address, <<reg>>, n)

read_register(bus, address, reg) ==
    LET r == read_registers(bus, address, 1, reg)
    IN [bus |-> r.bus, res |-> IF r.res.ok THEN Ok(r.res.val[1]) ELSE r.res]

(***************************************************************************)
(* Public methods of Rx8010sj                                              *)
(***************************************************************************)
is_stopped(bus, address) ==
    LET r == read_register(bus, address, REGISTER_CONTROL)
    IN [bus |-> r.bus,
        res |-> IF r.res.ok THEN Ok(BitAnd(r.res.val, BIT_REGISTER_CONTROL_STOP) > 0)
                ELSE r.res]

\* set_stopped writing the bare flag instead of the modified byte
set_stopped_overwrite(bus, address, stopped) ==
    LET r == read_register(bus, address, REGISTER_CONTROL)
    IN IF ~r.res.ok THEN r
       ELSE write_register(r.bus, address, REGISTER_CONTROL,
                IF stopped THEN BIT_REGISTER_CONTROL_STOP ELSE 0)

\* set_stopped going on to the write with a zero byte when the read failed
set_stopped_ignore_read_error(bus, address, stopped) ==
    LET r == read_register(bus, address, REGISTER_CONTROL)
        c == IF r.res.ok THEN r.res.val ELSE 0
    IN write_register(r.bus, address, REGISTER_CONTROL,
           IF stopped THEN BitOr(c, BIT_REGISTER_CONTROL_STOP)
           ELSE BitAnd(c, BitNot(BIT_REGISTER_CONTROL_STOP)))

set_stopped(bus, address, stopped) ==
    LET r == read_register(bus, address, REGISTER_CONTROL)
    IN IF ~r.res.ok THEN r
       ELSE write_register(r.bus, address, REGISTER_CONTROL,
                IF stopped THEN BitOr(r.res.val, BIT_REGISTER_CONTROL_STOP)
                ELSE BitAnd(r.res.val, BitNot(BIT_REGISTER_CONTROL_STOP)))

\* decode_time falling back to day 0 of the decoded year
decode_time_year_fallback(time_registers) ==
    LET sec == bcd2bin(time_registers[1])
        min == bcd2bin(time_registers[2])
        hour == bcd2bin(time_registers[3])
        day == bcd2bin(time_registers[5])
        month == bcd2bin(time_registers[6])
        year == bcd2bin(time_registers[7])
        date == unwrap_or(
                    LocalDate_ymd(year,
                                  unwrap_or(Month_from_zero(AsI8(month)), January),
                                  AsI8(day)),
                    LocalDate_yd(year, 0).val)
        time == unwrap_or(LocalTime_hms(AsI8(hour), AsI8(min), AsI8(sec)),
                          LocalTime_hm(0, 0).val)
    IN LocalDateTime_new(date, time)

\* decode_time taking the hour register as a binary number
decode_time_raw_hour(time_registers) ==
    LET sec == bcd2bin(time_registers[1])
        min == bcd2bin(time_registers[2])
        hour == time_registers[3]
        day == bcd2bin(time_registers[5])
        month == bcd2bin(time_registers[6])
        year == bcd2bin(time_registers[7])
        date == unwrap_or(
                    LocalDate_ymd(year,
                                  unwrap_or(Month_from_zero(AsI8(month)), January),
                                  AsI8(day)),
                    LocalDate_yd(1970, 0).val)
        time == unwrap_or(LocalTime_hms(AsI8(hour), AsI8(min), AsI8(sec)),
                          LocalTime_hm(0, 0).val)
    IN LocalDateTime_new(date, time)

\* the decoding half of get_time: 7 raw bytes to a LocalDateTime
decode_time(time_registers) ==
    LET sec == bcd2bin(time_registers[1])
        min == bcd2bin(time_registers[2])
        hour == bcd2bin(time_registers[3])
        wday == bcd2bin(time_registers[4])
        day == bcd2bin(time_registers[5])
        month == bcd2bin(time_registers[6])
        year == bcd2bin(time_registers[7])
        date == unwrap_or(
                    LocalDate_ymd(year,
                                  unwrap_or(Month_from_zero(AsI8(month)), January),
                                  AsI8(day)),
                    LocalDate_yd(1970, 0).val)
        time == unwrap_or(LocalTime_hms(AsI8(hour), AsI8(min), AsI8(sec)),
                          LocalTime_hm(0, 0).val)
    IN LocalDateTime_new(date, time)

get_time(bus, address) ==
    LET r == read_registers(bus, address, 7, REGISTER_SEC)
    IN [bus |-> r.bus, res |-> IF r.res.ok THEN Ok(decode_time(r.res.val)) ELSE r.res]

\* encode_time with the month written 1-based (1 = January), as the chip counts it
encode_time_month_from_one(date_time) ==
    <<bin2bcd(AsU8(date_time.time.second)),
      bin2bcd(AsU8(date_time.time.minute)),
      bin2bcd(AsU8(date_time.time.hour)),
      bin2bcd(date_time.date.weekday),
      bin2bcd(AsU8(date_time.date.day)),
      bin2bcd(date_time.date.month + 1),
      bin2bcd(AsU8(date_time.date.year - 1900))>>

\* the encoding half of set_time: a LocalDateTime to 7 raw bytes
encode_time(date_time) ==
    <<bin2bcd(AsU8(date_time.time.second)),
      bin2bcd(AsU8(date_time.time.minute)),
      bin2bcd(AsU8(date_time.time.hour)),
      bin2bcd(date_time.date.weekday),
      bin2bcd(AsU8(date_time.date.day)),
      bin2bcd(date_time.date.month),
      bin2bcd(AsU8(date_time.date.year - 1900))>>

set_time(bus, address, date_time) ==
    write_registers(bus, address, REGISTER_SEC, encode_time(date_time))

(***************************************************************************)
(* Bounds and input sets                                                   *)
(***************************************************************************)
\* calls made on one handle in a run
MaxCalls == 2

TimeRegs == REGISTER_SEC..(REGISTER_SEC + 6)
RegAddrs == TimeRegs \cup {REGISTER_CONTROL}

BusErrors == {"Nack", "ArbitrationLoss"}
Addresses == {DEFAULT_ADDRESS, 104}

\* initial contents of the control register
ControlSamples == {0, 191, 42}

\* initial contents of registers 0x10..0x16: the documented example block and a
\* block as an uninitialised device may hold it
BlockSamples ==
    { <<69, 48, 18, 3, 21, 2, 35>>,
      <<255, 96, 36, 7, 49, 1, 153>> }

MkDateTime(y, m, d, hh, mm, ss) ==
    LocalDateTime_new(LocalDate_ymd(y, m, d).val, LocalTime_hms(hh, mm, ss).val)

\* date-times handed to set_time: valid, year in 1900..1999
DateTimeSamples ==
    { MkDateTime(1923, 2, 15, 12, 30, 45),
      MkDateTime(1999, 11, 31, 23, 59, 59),
      MkDateTime(1900, 10, 1, 0, 0, 0) }

MkRegs(block, control) ==
    [r \in RegAddrs |-> IF r = REGISTER_CONTROL THEN control ELSE block[r - REGISTER_SEC + 1]]

TimeBlock(rs) == [i \in 1..7 |-> rs[REGISTER_SEC + (i - 1)]]

(***************************************************************************)
(* State                                                                   *)
(***************************************************************************)
VARIABLES
    regs,      \* the device registers 0x10..0x16 and 0x1F
    address,   \* the address held by the handle
    busError,  \* the error the transport reports when a transaction fails
    calls,     \* number of calls made so far
    op,        \* the last call: name, argument, failure plan, result
    txs,       \* the bus transactions the last call issued, in order
    pre,       \* the device registers when the last call started
    prev       \* the call before the last one

vars == <<regs, address, busError, calls, op, txs, pre, prev>>

NoOp == [name |-> "none"]

\* Rx8010sj::new on a device holding arbitrary register contents
Init ==
    /\ \E b \in BlockSamples, c \in ControlSamples : regs = MkRegs(b, c)
    /\ address = DEFAULT_ADDRESS
    /\ busError \in BusErrors
    /\ calls = 0
    /\ op = NoOp
    /\ txs = <<>>
    /\ pre = regs
    /\ prev = NoOp

StartBus(failAt) == [regs |-> regs, txs |-> <<>>, failAt |-> failAt, err |-> busError]

\* bookkeeping common to every call: r is what the method returned
Finish(name, arg, failAt, r) ==
    /\ calls < MaxCalls
    /\ regs' = r.bus.regs
    /\ txs' = r.bus.txs
    /\ op' = [name |-> name, arg |-> arg, failAt |-> failAt, res |-> r.res]
    /\ pre' = regs
    /\ prev' = op
    /\ calls' = calls + 1
    /\ UNCHANGED <<address, busError>>

WithAddress ==
    \E a \in Addresses \ {address} :
        /\ calls < MaxCalls
        /\ address' = a
        /\ op' = [name |-> "with_address", arg |-> a, failAt |-> 0, res |-> Ok(Unit)]
        /\ txs' = <<>>
        /\ pre' = regs
        /\ prev' = op
        /\ calls' = calls + 1
        /\ UNCHANGED <<regs, busError>>

IsStopped ==
    \E f \in 0..1 : Finish("is_stopped", Unit, f, is_stopped(StartBus(f), address))

SetStopped ==
    \E s \in BOOLEAN, f \in 0..2 :
        Finish("set_stopped", s, f, set_stopped(StartBus(f), address, s))

GetTime ==
    \E f \in 0..1 : Finish("get_time", Unit, f, get_time(StartBus(f), address))

SetTime ==
    \E dt \in DateTimeSamples, f \in 0..7 :
        Finish("set_time", dt, f, set_time(StartBus(f), address, dt))

Next == WithAddress \/ IsStopped \/ SetStopped \/ GetTime \/ SetTime

Spec == Init /\ [][Next]_vars

(***************************************************************************)
(* The control register alone, over every byte it can hold                 *)
(***************************************************************************)
ExampleBlock == <<69, 48, 18, 3, 21, 2, 35>>

InitControl ==
    /\ \E c \in Byte : regs = MkRegs(ExampleBlock, c)
    /\ address = DEFAULT_ADDRESS
    /\ busError \in BusErrors
    /\ calls = 0
    /\ op = NoOp
    /\ txs = <<>>
    /\ pre = regs
    /\ prev = NoOp

NextControl == IsStopped \/ SetStopped

SpecControl == InitControl /\ [][NextControl]_vars

(***************************************************************************)
(* get_time over register blocks a device can hold: valid ones, impossible *)
(* days and months, out-of-range times, nibbles above 9                    *)
(***************************************************************************)
SecSamples == {0, 69, 96}
MinSamples == {0, 48, 90}
HourSamples == {18, 35, 36, 200}
WdaySamples == {3, 6}
DaySamples == {0, 21, 41, 48, 49, 255}
MonthSamples == {0, 1, 2, 17, 18, 255}
YearSamples == {35, 36, 153}

InitDecode ==
    /\ \E ss \in SecSamples, mm \in MinSamples, hh \in HourSamples, wd \in WdaySamples,
          d \in DaySamples, m \in MonthSamples, y \in YearSamples :
            regs = MkRegs(<<ss, mm, hh, wd, d, m, y>>, 0)
    /\ address = DEFAULT_ADDRESS
    /\ busError = "Nack"
    /\ calls = 0
    /\ op = NoOp
    /\ txs = <<>>
    /\ pre = regs
    /\ prev = NoOp

NextDecode == GetTime

SpecDecode == InitDecode /\ [][NextDecode]_vars

(***************************************************************************)
(* The two codec functions applied to every byte, and to each other's      *)
(* results                                                                 *)
(***************************************************************************)
Apply(name, arg, val) ==
    /\ calls < MaxCalls
    /\ op' = [name |-> name, arg |-> arg, failAt |-> 0, res |-> Ok(val)]
    /\ prev' = op
    /\ calls' = calls + 1
    /\ UNCHANGED <<regs, address, busError, txs, pre>>

\* each function applied to the value at hand: the drawn input, or the last result
Bcd2Bin == Apply("bcd2bin", op.res.val, bcd2bin(op.res.val))

Bin2Bcd == Apply("bin2bcd", op.res.val, bin2bcd(op.res.val))

InitCodec ==
    /\ regs = MkRegs(ExampleBlock, 0)
    /\ address = DEFAULT_ADDRESS
    /\ busError = "Nack"
    /\ calls = 0
    /\ \E b \in Byte : op = [name |-> "input", arg |-> b, failAt |-> 0, res |-> Ok(b)]
    /\ txs = <<>>
    /\ pre = regs
    /\ prev = NoOp

NextCodec == Bcd2Bin \/ Bin2Bcd

SpecCodec == InitCodec /\ [][NextCodec]_vars

(***************************************************************************)
(* Vocabulary of the properties, independent of the driver's own operators *)
(***************************************************************************)
\* the two decimal digits of a byte read as a number, and the byte of a number 0..99
Dec(b) == (b \div 16) * 10 + (b % 16)
Bcd(v) == (v \div 10) * 16 + (v % 10)
ValidBcd(b) == (b \div 16) <= 9 /\ (b % 16) <= 9
Bit(b, i) == (b \div (2 ^ i)) % 2

IsLeapYear(y) == y % 4 = 0 /\ (y % 100 # 0 \/ y % 400 = 0)
DaysInMonth(y, m) ==
    IF m = 1 THEN (IF IsLeapYear(y) THEN 29 ELSE 28)
    ELSE IF m \in {3, 5, 8, 10} THEN 30 ELSE 31

Called(o, name) == o.name = name
Succeeded(o, name) == o.name = name /\ o.res.ok
Control(rs) == rs[REGISTER_CONTROL]

(***************************************************************************)
(* C7: bcd2bin and bin2bcd are mutually inverse on the valid domain: for   *)
(* every byte b with both nibbles in 0..9, bin2bcd applied to the result   *)
(* of bcd2bin(b) gives b; for every v in 0..99, bcd2bin applied to the     *)
(* result of bin2bcd(v) gives v; and both compute the stated formulas.     *)
(***************************************************************************)
C7_CodecInverse ==
    /\ Called(op, "bcd2bin") => op.res.val = Dec(op.arg)
    /\ Called(op, "bin2bcd") => op.res.val = (Bcd(op.arg)) % 256
    /\ (Called(prev, "bcd2bin") /\ ValidBcd(prev.arg)
        /\ Called(op, "bin2bcd") /\ op.arg = prev.res.val) => op.res.val = prev.arg
    /\ (Called(prev, "bin2bcd") /\ prev.arg <= 99
        /\ Called(op, "bcd2bin") /\ op.arg = prev.res.val) => op.res.val = prev.arg

\* 0x99 decoded to 99 and encoded back to 0x99
C7_Witness ==
    /\ Called(prev, "bcd2bin") /\ prev.arg = 153 /\ prev.res.val = 99
    /\ Called(op, "bin2bcd") /\ op.arg = 99 /\ op.res.val = 153

(***************************************************************************)
(* C2: a successful set_stopped(s) leaves register 0x1F equal to the byte  *)
(* it held before with bit 6 set when s is true and cleared when s is      *)
(* false, every other bit unchanged; a following successful is_stopped     *)
(* returns s.                                                              *)
(***************************************************************************)
C2_StopFlagReadModifyWrite ==
    /\ Succeeded(op, "set_stopped") =>
          \A i \in 0..7 :
              Bit(Control(regs), i) =
                  IF i = 6 THEN (IF op.arg THEN 1 ELSE 0) ELSE Bit(Control(pre), i)
    /\ (Succeeded(prev, "set_stopped") /\ Succeeded(op, "is_stopped")) =>
          op.res.val = prev.arg

\* set_stopped(true) on a byte with every other bit set, then is_stopped said true
C2_Witness ==
    /\ Succeeded(prev, "set_stopped") /\ prev.arg = TRUE
    /\ Succeeded(op, "is_stopped") /\ op.res.val = TRUE
    /\ Control(regs) = 255
    /\ busError = "Nack"

(***************************************************************************)
(* C3: when the transport fails on the read leg or on the write leg of     *)
(* set_stopped, set_stopped returns the transport's error unmodified, no   *)
(* write takes effect (after a failed read no write transaction is issued  *)
(* at all), and register 0x1F holds the value it had before the call.      *)
(***************************************************************************)
C3_SetStoppedFailure ==
    Called(op, "set_stopped") =>
        /\ op.failAt \in {1, 2} <=> ~op.res.ok
        /\ ~op.res.ok =>
              /\ op.res = BusErr(busError)
              /\ Control(regs) = Control(pre)
              /\ regs = pre
              /\ \A i \in 1..Len(txs) : txs[i].kind = "write" => ~txs[i].ok
        /\ op.failAt = 1 =>
              /\ Len(txs) = 1
              /\ txs[1].kind = "write_read"
        /\ op.failAt = 2 =>
              /\ Len(txs) = 2
              /\ txs[1].kind = "write_read" /\ txs[1].ok
              /\ txs[2].kind = "write" /\ ~txs[2].ok

\* a call that failed on its read leg followed by one that failed on its write leg
C3_Witness ==
    /\ Called(prev, "set_stopped") /\ prev.failAt = 1 /\ ~prev.res.ok
    /\ Called(op, "set_stopped") /\ op.failAt = 2 /\ ~op.res.ok
    /\ op.arg = TRUE /\ Control(pre) = 42

(***************************************************************************)
(* Decoded fields of a 7-byte block [sec, min, hour, wday, day, month,     *)
(* year], as signed bytes where the driver casts them                      *)
(***************************************************************************)
SecOf(b) == AsI8(Dec(b[1]))
MinOf(b) == AsI8(Dec(b[2]))
HourOf(b) == AsI8(Dec(b[3]))
WdayOf(b) == Dec(b[4])
DayOf(b) == AsI8(Dec(b[5]))
MonthOf(b) == AsI8(Dec(b[6]))
YearOf(b) == Dec(b[7])

ValidMonth(b) == MonthOf(b) >= 0 /\ MonthOf(b) <= 11
\* the month the date is built with: January stands in for an invalid index
UsedMonth(b) == IF ValidMonth(b) THEN MonthOf(b) ELSE 0
ValidDayFor(b, m) == DayOf(b) >= 1 /\ DayOf(b) <= DaysInMonth(YearOf(b), m)
InDayTime(b) ==
    /\ HourOf(b) >= 0 /\ HourOf(b) < 24
    /\ MinOf(b) >= 0 /\ MinOf(b) < 60
    /\ SecOf(b) >= 0 /\ SecOf(b) < 60
Hms(t) == <<t.hour, t.minute, t.second>>
Ymd(d) == <<d.year, d.month, d.day>>

(***************************************************************************)
(* C1: after a successful set_time of a valid date-time with year in       *)
(* 1900..1999, a following successful get_time returns the same second,    *)
(* minute, hour, day, month, weekday and year.                             *)
(***************************************************************************)
C1_RoundTrip ==
    (Succeeded(prev, "set_time") /\ Succeeded(op, "get_time")) =>
        /\ Hms(op.res.val.time) = Hms(prev.arg.time)
        /\ op.res.val.date.day = prev.arg.date.day
        /\ op.res.val.date.month = prev.arg.date.month
        /\ op.res.val.date.weekday = prev.arg.date.weekday
        /\ op.res.val.date.year = prev.arg.date.year

(***************************************************************************)
(* C4: get_time on a valid block [second, minute, hour, weekday, day,      *)
(* month, year] returns the BCD-decoded second, minute, hour and day, the  *)
(* month register as a 0-based month, the weekday register as the weekday, *)
(* and a full calendar year; [0x45, 0x30, 0x12, 0x03, 0x15, 0x02, 0x23]    *)
(* decodes to 2023-03-15 12:30:45, a Wednesday.                            *)
(***************************************************************************)
C4_DecodeValidBlock ==
    LET b == TimeBlock(pre) IN
    (Succeeded(op, "get_time") /\ (\A i \in 1..7 : ValidBcd(b[i])) /\ InDayTime(b)
     /\ WdayOf(b) <= 6 /\ ValidMonth(b) /\ ValidDayFor(b, MonthOf(b))) =>
        /\ Hms(op.res.val.time) = <<HourOf(b), MinOf(b), SecOf(b)>>
        /\ op.res.val.date.day = DayOf(b)
        /\ op.res.val.date.month = MonthOf(b)
        /\ op.res.val.date.weekday = WdayOf(b)
        /\ op.res.val.date.year \in {1900 + YearOf(b), 2000 + YearOf(b)}
        /\ b = ExampleBlock =>
              /\ Ymd(op.res.val.date) = <<2023, 2, 15>>
              /\ op.res.val.date.weekday = 3

(***************************************************************************)
(* C5 as claimed: for every block read successfully get_time returns Ok,   *)
(* and when the decoded month is outside 0..11 or the decoded day is not a *)
(* day of the decoded month and year, the date is day 0 of the year        *)
(* decoded from the year register (the day before its 1 January).          *)
(***************************************************************************)
C5_FallbackOfDecodedYear ==
    LET b == TimeBlock(pre) IN
    Called(op, "get_time") =>
        /\ op.failAt = 0 => op.res.ok
        /\ (op.res.ok /\ (~ValidMonth(b) \/ ~ValidDayFor(b, MonthOf(b)))) =>
              Ymd(op.res.val.date) = <<YearOf(b) - 1, 11, 31>>

(***************************************************************************)
(* C5 amended: for every block read successfully get_time returns Ok.  A   *)
(* month index outside 0..11 is replaced by January.  When the decoded day *)
(* is not a day of that month in the year decoded from the year register   *)
(* (the two-digit value itself), the date is the fixed fallback            *)
(* LocalDate::yd(1970, 0), which is Wednesday 1969-12-31, whatever the     *)
(* year register holds; an invalid month with a day in 1..31 gives that    *)
(* day of January of the decoded year, not the fallback.                   *)
(***************************************************************************)
C5_FixedFallbackDate ==
    LET b == TimeBlock(pre) IN
    Called(op, "get_time") =>
        /\ op.failAt = 0 => op.res.ok
        /\ (op.res.ok /\ ~ValidDayFor(b, UsedMonth(b))) =>
              /\ Ymd(op.res.val.date) = <<1969, 11, 31>>
              /\ op.res.val.date.weekday = 3
        /\ (op.res.ok /\ ~ValidMonth(b) /\ ValidDayFor(b, 0)) =>
              Ymd(op.res.val.date) = <<YearOf(b), 0, DayOf(b)>>

\* day 31 with month register 1 (February) and year register 0x23 read back
C5_Witness ==
    /\ Succeeded(op, "get_time")
    /\ TimeBlock(pre)[5] = 49 /\ TimeBlock(pre)[6] = 1 /\ TimeBlock(pre)[7] = 35
    /\ op.res.val.date.year = 1969
    /\ Succeeded(prev, "get_time") /\ prev.res.val = op.res.val

(***************************************************************************)
(* C6 as claimed: for every block read successfully get_time returns Ok,   *)
(* and when the decoded hour, minute, second are not a time of day (hour   *)
(* 24 or more, minute or second 60 or more, or negative as a signed byte)  *)
(* the time is 00:00:00 and the date is the one the same date registers    *)
(* give with a valid time.                                                 *)
(***************************************************************************)
DateWithValidTime(b) == decode_time(<<0, 0, 0, b[4], b[5], b[6], b[7]>>).date

C6_MidnightFallback ==
    LET b == TimeBlock(pre) IN
    Called(op, "get_time") =>
        /\ op.failAt = 0 => op.res.ok
        /\ (op.res.ok /\ ~InDayTime(b)) =>
              /\ Hms(op.res.val.time) = <<0, 0, 0>>
              /\ op.res.val.date = DateWithValidTime(b)

(***************************************************************************)
(* C6 amended: as claimed, except that hour 24 with minute 0 and second 0  *)
(* is accepted and returned as 24:00:00; every other hour, minute, second  *)
(* outside 0..23, 0..59, 0..59 gives 00:00:00, and a time inside them is   *)
(* returned as decoded.  The date does not depend on the time registers.   *)
(***************************************************************************)
C6_MidnightFallbackBut24 ==
    LET b == TimeBlock(pre)
        endOfDay == HourOf(b) = 24 /\ MinOf(b) = 0 /\ SecOf(b) = 0
    IN
    Called(op, "get_time") =>
        /\ op.failAt = 0 => op.res.ok
        /\ (op.res.ok /\ ~InDayTime(b) /\ ~endOfDay) => Hms(op.res.val.time) = <<0, 0, 0>>
        /\ (op.res.ok /\ endOfDay) => Hms(op.res.val.time) = <<24, 0, 0>>
        /\ (op.res.ok /\ InDayTime(b)) =>
              Hms(op.res.val.time) = <<HourOf(b), MinOf(b), SecOf(b)>>
        /\ op.res.ok => op.res.val.date = DateWithValidTime(b)

\* hour register 0x24 with minute register 0x30: midnight, on the date the date registers give
C6_Witness ==
    /\ Succeeded(op, "get_time")
    /\ TimeBlock(pre)[3] = 36 /\ TimeBlock(pre)[2] = 48
    /\ Hms(op.res.val.time) = <<0, 0, 0>>
    /\ Ymd(op.res.val.date) = <<23, 2, 15>>

(***************************************************************************)
(* The bytes set_time is to put in registers 0x10..0x16 for a date-time,   *)
(* and the write transaction that carries the i-th of them                 *)
(***************************************************************************)
Fields(dt) ==
    <<dt.time.second, dt.time.minute, dt.time.hour, dt.date.weekday,
      dt.date.day, dt.date.month, dt.date.year - 1900>>

WrittenTo(reg) == {i \in 1..Len(txs) : txs[i].kind = "write" /\ txs[i].bytes[1] = reg}

(***************************************************************************)
(* C8 as claimed: set_time writes the raw 0-based weekday index to         *)
(* register 0x13 and the raw 0-based month index (0..11) to register 0x15, *)
(* not a BCD encoding of it, and BCD-encodes seconds, minutes, hours, day  *)
(* and year.                                                               *)
(***************************************************************************)
C8_RawWeekdayAndMonth ==
    Called(op, "set_time") =>
        \A k \in 1..7 : \A i \in WrittenTo(REGISTER_SEC + (k - 1)) :
            txs[i].bytes[2] = IF k \in {4, 6} THEN Fields(op.arg)[k] ELSE Bcd(Fields(op.arg)[k])

(***************************************************************************)
(* C8 amended: set_time writes every one of the seven fields BCD-encoded;  *)
(* for the weekday index 0..6 and the months January..October (0..9) the   *)
(* BCD byte equals the raw index, while November and December are written  *)
(* as 0x10 and 0x11.                                                       *)
(***************************************************************************)
C8_BcdWeekdayAndMonth ==
    Called(op, "set_time") =>
        /\ \A k \in 1..7 : \A i \in WrittenTo(REGISTER_SEC + (k - 1)) :
              txs[i].bytes[2] = Bcd(Fields(op.arg)[k])
        /\ \A i \in WrittenTo(REGISTER_SEC + 3) : txs[i].bytes[2] = op.arg.date.weekday
        /\ \A i \in WrittenTo(REGISTER_SEC + 5) :
              txs[i].bytes[2] = CASE op.arg.date.month = 10 -> 16
                                  [] op.arg.date.month = 11 -> 17
                                  [] OTHER -> op.arg.date.month

\* December written to the month register as 0x11
C8_Witness ==
    /\ Succeeded(op, "set_time")
    /\ op.arg.date.month = 11
    /\ regs[REGISTER_SEC + 5] = 17
    /\ pre[REGISTER_SEC + 5] # 17

(***************************************************************************)
(* C9: set_time issues one write transaction [register, byte] per byte to  *)
(* registers 0x10, 0x11, ..., 0x16 in ascending order; when the k-th write *)
(* fails it returns that error and issues no further write, the first k-1  *)
(* registers hold the new values and the others their previous values; it  *)
(* returns Ok only after all 7 writes succeeded.                           *)
(***************************************************************************)
C9_OrderedPartialWrite ==
    Called(op, "set_time") =>
        LET k == op.failAt
            n == IF k = 0 THEN 7 ELSE k
            data == [i \in 1..7 |-> Bcd(Fields(op.arg)[i])]
        IN /\ Len(txs) = n
           /\ \A i \in 1..n :
                 txs[i] = [kind |-> "write", addr |-> address, len |-> 0,
                           bytes |-> <<REGISTER_SEC + (i - 1), data[i]>>, ok |-> i # k]
           /\ op.res = IF k = 0 THEN Ok(Unit) ELSE BusErr(busError)
           /\ \A i \in 1..7 :
                 regs[REGISTER_SEC + (i - 1)] =
                     IF k = 0 \/ i < k THEN data[i] ELSE pre[REGISTER_SEC + (i - 1)]
           /\ Control(regs) = Control(pre)

\* the 4th write failed: three registers new, four old, and they differ
C9_Witness ==
    /\ Called(op, "set_time") /\ op.failAt = 4 /\ ~op.res.ok
    /\ \A i \in 1..3 : regs[REGISTER_SEC + (i - 1)] # pre[REGISTER_SEC + (i - 1)]
    /\ \A i \in 4..7 : regs[REGISTER_SEC + (i - 1)] # Bcd(Fields(op.arg)[i])

(***************************************************************************)
(* C10: is_stopped and get_time each issue exactly one write-then-read     *)
(* transaction (1 byte at 0x1F, 7 bytes at 0x10) and no write, and change  *)
(* no register; set_stopped writes only register 0x1F and set_time only    *)
(* registers 0x10..0x16; so the time registers change only in set_time and *)
(* the control register only in set_stopped; every transaction uses the    *)
(* address held by the handle, which is 0x32 until with_address changes it.*)
(***************************************************************************)
FrameOfLastCall ==
    /\ Called(op, "is_stopped") =>
          /\ txs = <<[kind |-> "write_read", addr |-> address, len |-> 1,
                      bytes |-> <<REGISTER_CONTROL>>, ok |-> op.res.ok]>>
          /\ regs = pre
    /\ Called(op, "get_time") =>
          /\ txs = <<[kind |-> "write_read", addr |-> address, len |-> 7,
                      bytes |-> <<REGISTER_SEC>>, ok |-> op.res.ok]>>
          /\ regs = pre
    /\ Called(op, "set_stopped") =>
          /\ \A i \in 1..Len(txs) : txs[i].kind = "write" => txs[i].bytes[1] = REGISTER_CONTROL
          /\ \A r \in TimeRegs : regs[r] = pre[r]
    /\ Called(op, "set_time") =>
          /\ \A i \in 1..Len(txs) : txs[i].kind = "write" /\ txs[i].bytes[1] \in TimeRegs
          /\ Control(regs) = Control(pre)
    /\ Called(op, "with_address") => txs = <<>> /\ regs = pre
    /\ (\E r \in TimeRegs : regs[r] # pre[r]) => Called(op, "set_time")
    /\ Control(regs) # Control(pre) => Called(op, "set_stopped")
    /\ \A i \in 1..Len(txs) : txs[i].addr = address

C10_Frame ==
    /\ address = 50
    /\ []FrameOfLastCall
    /\ [][(address' # address => Called(op', "with_address"))
          /\ (regs' # regs => op'.name \in {"set_time", "set_stopped"})]_vars

\* a set_time through an overridden address that changed the time registers
C10_Witness ==
    /\ Called(prev, "with_address")
    /\ Succeeded(op, "set_time")
    /\ address = 104
    /\ \A i \in 1..7 : txs[i].addr = 104
    /\ \A r \in TimeRegs : regs[r] # pre[r]
====
